---- MODULE Spec2Model ----
(***************************************************************************)
(* POST /api/chat of the AI Copilot backend: payload normalization         *)
(* (src/api/schemas.py), the upstream completion client and the            *)
(* deterministic fallback (src/services/chat.py) and the route handler     *)
(* (src/api/main.py).                                                      *)
(*                                                                         *)
(* A Python str is modelled as a sequence of characters, each character a  *)
(* one-character string (a non-ASCII character is named by its code        *)
(* point, "U+2019"), so that strip, lower, in, startswith, endswith, len   *)
(* and slicing are computed as Python computes them.                       *)
(***************************************************************************)
EXTENDS Integers, Sequences, FiniteSets, TLC

\* ------------------------------------------------------------------ bounds
\* Longest `messages` array of a payload, and longest history of a direct
\* call of generate_reply.
MaxMsgs == 2

\* ------------------------------------------------------- program constants
MAX_INPUT_CHARS == 5000
MAX_RESPONSE_CHARS == 4000
\* constr(max_length=5000) of Message.content and ChatRequestLegacy.message
MAX_CONTENT_LENGTH == 5000
\* httpx.Client(timeout=10.0): seconds allowed to each network phase
CLIENT_TIMEOUT == 10
\* asyncio.wait_for(..., timeout=13.0)
ROUTE_TIMEOUT == 13

\* ------------------------------------------------------------ Python str
Whitespace == {" ", "\t", "\n", "\r", "\f"}

UpperAlpha ==
  <<"A","B","C","D","E","F","G","H","I","J","K","L","M","N","O","P","Q","R","S","T","U","V","W","X","Y","Z">>
LowerAlpha ==
  <<"a","b","c","d","e","f","g","h","i","j","k","l","m","n","o","p","q","r","s","t","u","v","w","x","y","z">>

UpperSet == {UpperAlpha[i] : i \in 1..26}
LowerOf == [c \in UpperSet |-> LowerAlpha[CHOOSE i \in 1..26 : UpperAlpha[i] = c]]

LowerChar(c) == IF c \in UpperSet THEN LowerOf[c] ELSE c

\* s.lower()
Lower(s) == [i \in 1..Len(s) |-> LowerChar(s[i])]

\* s.lstrip(), s.rstrip(), s.strip()
IsBlank(s) == \A i \in 1..Len(s) : s[i] \in Whitespace

LStrip(s) ==
  IF IsBlank(s) THEN <<>>
  ELSE SubSeq(s, CHOOSE i \in 1..Len(s) :
                   s[i] \notin Whitespace /\ \A j \in 1..(i - 1) : s[j] \in Whitespace,
              Len(s))

\* k counts the trailing whitespace characters
RStrip(s) ==
  IF IsBlank(s) THEN <<>>
  ELSE SubSeq(s, 1, Len(s) - (CHOOSE k \in 0..(Len(s) - 1) :
                      /\ s[Len(s) - k] \notin Whitespace
                      /\ \A j \in 0..(k - 1) : s[Len(s) - j] \in Whitespace))

Strip(s) == RStrip(LStrip(s))

\* s[:n]
Prefix(s, n) == IF Len(s) <= n THEN s ELSE SubSeq(s, 1, n)

\* s.startswith(t), s.endswith(t), t in s
StartsWith(s, t) == Len(t) <= Len(s) /\ SubSeq(s, 1, Len(t)) = t
EndsWith(s, t) == Len(t) <= Len(s) /\ SubSeq(s, Len(s) - Len(t) + 1, Len(s)) = t
Contains(s, t) ==
  \/ t = <<>>
  \/ \E i \in 0..(Len(s) - Len(t)) : s[i + 1] = t[1] /\ SubSeq(s, i + 1, i + Len(t)) = t

\* a str of n copies of the character c
Repeat(c, n) == [i \in 1..n |-> c]

\* ------------------------------------------------------ string literals
\* chat.py:8-10
DEFAULT_GREETING ==
  <<"H","i","!"," ","I","'","m"," ","y","o","u","r"," ","h","e","l","p","f","u","l"," ","A","I"," ","C","o","p","i","l","o","t","."," ","A","s","k"," ","m","e"," ","a","n","y","t","h","i","n","g",","," ","a","n","d"," ","I","'","l","l"," ","p","r","o","v","i","d","e"," ","a"," ","c","o","n","c","i","s","e",","," ","f","r","i","e","n","d","l","y"," ","a","n","s","w","e","r",".">>

\* chat.py:178
REPLY_NEED_DETAIL ==
  <<"I","U+2019","m"," ","h","e","r","e"," ","t","o"," ","h","e","l","p","."," ","C","o","u","l","d"," ","y","o","u"," ","s","h","a","r","e"," ","a"," ","b","i","t"," ","m","o","r","e"," ","d","e","t","a","i","l"," ","a","b","o","u","t"," ","w","h","a","t"," ","y","o","u"," ","n","e","e","d","?">>

\* chat.py:187
REPLY_VEG_BULLETS ==
  <<"-"," ","C","a","r","r","o","t","s","\n","-"," ","B","r","o","c","c","o","l","i","\n","-"," ","S","p","i","n","a","c","h","\n","-"," ","B","e","l","l"," ","p","e","p","p","e","r","s","\n","-"," ","C","a","u","l","i","f","l","o","w","e","r","\n","-"," ","T","o","m","a","t","o","e","s","\n","-"," ","C","u","c","u","m","b","e","r","s">>

\* chat.py:189
REPLY_VEG_SENTENCE ==
  <<"C","a","r","r","o","t","s",","," ","b","r","o","c","c","o","l","i",","," ","s","p","i","n","a","c","h",","," ","b","e","l","l"," ","p","e","p","p","e","r","s",","," ","c","a","u","l","i","f","l","o","w","e","r",","," ","t","o","m","a","t","o","e","s",","," ","c","u","c","u","m","b","e","r","s",".">>

\* chat.py:193
REPLY_EXAMPLE_BULLETS ==
  <<"-"," ","E","x","a","m","p","l","e"," ","1",":"," ","A"," ","q","u","i","c","k",","," ","h","e","a","l","t","h","y"," ","l","u","n","c","h",":"," ","q","u","i","n","o","a",","," ","r","o","a","s","t","e","d"," ","c","h","i","c","k","p","e","a","s",","," ","s","p","i","n","a","c","h",","," ","c","h","e","r","r","y"," ","t","o","m","a","t","o","e","s",".","\n","-"," ","E","x","a","m","p","l","e"," ","2",":"," ","M","i","n","i","m","a","l"," ","P","y","t","h","o","n"," ","f","u","n","c","t","i","o","n"," ","t","o"," ","a","d","d"," ","t","w","o"," ","n","u","m","b","e","r","s",".","\n","-"," ","E","x","a","m","p","l","e"," ","3",":"," ","T","h","r","e","e"," ","b","u","l","l","e","t"," ","s","t","e","p","s"," ","t","o"," ","g","e","t"," ","s","t","a","r","t","e","d"," ","o","n"," ","a"," ","t","a","s","k",".">>

\* chat.py:195
REPLY_EXAMPLE_SENTENCE ==
  <<"E","x","a","m","p","l","e",":"," ","A"," ","q","u","i","c","k"," ","h","e","a","l","t","h","y"," ","l","u","n","c","h","U+2014","q","u","i","n","o","a"," ","w","i","t","h"," ","r","o","a","s","t","e","d"," ","c","h","i","c","k","p","e","a","s",","," ","s","p","i","n","a","c","h",","," ","a","n","d"," ","c","h","e","r","r","y"," ","t","o","m","a","t","o","e","s",".">>

\* chat.py:202
REPLY_QUESTION_BULLETS ==
  <<"-"," ","D","e","f","i","n","e"," ","t","h","e"," ","g","o","a","l",".","\n","-"," ","L","i","s","t"," ","2","U+2013","3"," ","c","o","n","c","r","e","t","e"," ","s","t","e","p","s",".","\n","-"," ","P","r","o","v","i","d","e"," ","o","n","e"," ","s","m","a","l","l"," ","e","x","a","m","p","l","e",".">>

\* chat.py:204
REPLY_QUESTION_GUIDED ==
  <<"-"," ","I","d","e","n","t","i","f","y"," ","t","h","e"," ","g","o","a","l",".","\n","-"," ","B","r","e","a","k"," ","t","h","e"," ","t","a","s","k"," ","i","n","t","o"," ","2","U+2013","4"," ","c","l","e","a","r"," ","s","t","e","p","s",".","\n","-"," ","E","x","a","m","p","l","e",":"," ","S","h","o","w"," ","a"," ","m","i","n","i","m","a","l",","," ","c","o","n","c","r","e","t","e"," ","i","l","l","u","s","t","r","a","t","i","o","n",".">>

\* chat.py:205
REPLY_QUESTION_PLAIN ==
  <<"D","e","f","i","n","e"," ","t","h","e"," ","g","o","a","l",","," ","l","i","s","t"," ","2","U+2013","3"," ","c","o","n","c","r","e","t","e"," ","s","t","e","p","s",","," ","a","n","d"," ","a","d","d"," ","a"," ","s","m","a","l","l"," ","e","x","a","m","p","l","e",".">>

\* chat.py:207
REPLY_DEFAULT ==
  <<"O","u","t","l","i","n","e"," ","y","o","u","r"," ","g","o","a","l",","," ","l","i","s","t"," ","2","U+2013","3"," ","c","o","n","c","r","e","t","e"," ","a","c","t","i","o","n","s",","," ","a","n","d"," ","i","n","c","l","u","d","e"," ","o","n","e"," ","q","u","i","c","k"," ","e","x","a","m","p","l","e",".">>

\* chat.py:175
ELLIPSIS ==
  <<".",".",".">>

KW_vegetable ==
  <<"v","e","g","e","t","a","b","l","e">>

KW_vegetables ==
  <<"v","e","g","e","t","a","b","l","e","s">>

KW_example ==
  <<"e","x","a","m","p","l","e">>

KW_examples ==
  <<"e","x","a","m","p","l","e","s">>

KW_example_of ==
  <<"e","x","a","m","p","l","e"," ","o","f">>

KW_examples_of ==
  <<"e","x","a","m","p","l","e","s"," ","o","f">>

KW_list ==
  <<"l","i","s","t">>

KW_qmark ==
  <<"?">>

\* chat.py:199, the prefixes of lower.startswith
QUESTION_PREFIXES ==
  {<<"h","o","w">>,
   <<"w","h","a","t">>,
   <<"w","h","y">>,
   <<"w","h","e","r","e">>,
   <<"w","h","e","n">>,
   <<"h","e","l","p">>,
   <<"c","a","n"," ","y","o","u">>,
   <<"c","o","u","l","d"," ","y","o","u">>}

\* chat.py:203
GUIDED_PREFIXES ==
  {<<"h","o","w">>,
   <<"h","e","l","p">>,
   <<"c","a","n"," ","y","o","u">>,
   <<"c","o","u","l","d"," ","y","o","u">>}

\* the formula the water one-liner of the specification contains
TXT_H2O ==
  <<"H","U+2082","O">>

TXT_Carrots ==
  <<"C","a","r","r","o","t","s">>

TXT_what_is_water ==
  <<"w","h","a","t"," ","i","s"," ","w","a","t","e","r">>

TXT_what_is_water_q ==
  <<"w","h","a","t"," ","i","s"," ","w","a","t","e","r","?">>

IN_WhatIsWater ==
  <<"W","h","a","t"," ","i","s"," ","w","a","t","e","r","?">>

IN_what_is_water ==
  <<" "," ","w","h","a","t"," ","i","s"," ","W","A","T","E","R"," ">>

IN_VegExamples ==
  <<"G","i","v","e"," ","m","e"," ","e","x","a","m","p","l","e","s"," ","o","f"," ","v","e","g","e","t","a","b","l","e","s">>

IN_VegPlain ==
  <<"I"," ","l","i","k","e"," ","V","E","G","E","T","A","B","L","E","S">>

IN_hi_padded ==
  <<" ","h","i"," ">>

IN_hi ==
  <<"h","i">>

IN_blank ==
  <<" ","\t">>

IN_empty ==
  <<>>

IN_VegQuestion ==
  <<"W","h","a","t"," ","v","e","g","e","t","a","b","l","e","s","?">>

IN_HowList ==
  <<"h","o","w"," ","t","o"," ","l","i","s","t"," ","f","i","l","e","s">>

IN_Example ==
  <<"a","n"," ","E","x","a","m","p","l","e"," ","p","l","e","a","s","e">>

IN_seven ==
  <<"7">>

IN_True ==
  <<"T","r","u","e">>

OUT_answer ==
  <<" ","W","a","t","e","r"," ","i","s"," ","a"," ","l","i","q","u","i","d",".","\n">>

OUT_blank ==
  <<" "," ","\n">>

\* a str one character longer than Message.content may be, than the fallback
\* reads, and than a reply may be
IN_TooLong == Repeat("a", MAX_CONTENT_LENGTH + 1)
\* a content no validated Message holds (model_construct can build one): its
\* first MAX_INPUT_CHARS characters end in a blank
IN_LongHistory == Repeat("a", MAX_INPUT_CHARS - 1) \o <<" ", "b", "?">>
OUT_TooLong == Repeat("w", MAX_RESPONSE_CHARS - 1) \o <<" ", "x">>

\* ------------------------------------------------------------- Message
Roles == {"user", "assistant", "system"}

Msg(r, c) == [role |-> r, content |-> c]

\* Optional[str]: None or a str
None == [kind |-> "None", s |-> <<>>]
Str(s) == [kind |-> "str", s |-> s]

\* ------------------------------------------- deterministic fallback reply
\* indices of the user-role messages
UserIdx(messages) == {i \in 1..Len(messages) : messages[i].role = "user"}

\* for m in reversed(messages): if m.role == RoleEnum.user
LastUserIdx(messages) ==
  CHOOSE i \in UserIdx(messages) : \A j \in UserIdx(messages) : j <= i

extract_last_user_message(messages) ==
  IF UserIdx(messages) = {} THEN None
  ELSE Str(Strip(messages[LastUserIdx(messages)].content))

wants_list_mut_style_only(lower, response_style) ==
  response_style = "list"

\* chat.py:183
wants_list(lower, response_style) ==
  \/ response_style = "list"
  \/ Contains(lower, KW_example)
  \/ Contains(lower, KW_examples)
  \/ Contains(lower, KW_list)

fallback_rules_mut_example_first(user_text, response_style) ==
  LET lower == Lower(user_text)
      wl == wants_list(lower, response_style)
  IN  IF Contains(lower, KW_example) \/ Contains(lower, KW_examples)
      THEN (IF wl THEN REPLY_EXAMPLE_BULLETS ELSE REPLY_EXAMPLE_SENTENCE)
      ELSE IF Contains(lower, KW_vegetable) \/ Contains(lower, KW_vegetables)
      THEN (IF wl THEN REPLY_VEG_BULLETS ELSE REPLY_VEG_SENTENCE)
      ELSE REPLY_DEFAULT

\* chat.py:180-207, the rules applied to the non-empty text of the latest user message
fallback_rules(user_text, response_style) ==
  LET lower == Lower(user_text)
      wl == wants_list(lower, response_style)
  IN  IF Contains(lower, KW_vegetable) \/ Contains(lower, KW_vegetables)
      THEN (IF wl THEN REPLY_VEG_BULLETS ELSE REPLY_VEG_SENTENCE)
      ELSE IF \/ Contains(lower, KW_example) \/ Contains(lower, KW_examples)
              \/ Contains(lower, KW_example_of) \/ Contains(lower, KW_examples_of)
      THEN (IF wl THEN REPLY_EXAMPLE_BULLETS ELSE REPLY_EXAMPLE_SENTENCE)
      ELSE IF \/ EndsWith(lower, KW_qmark)
              \/ \E p \in QUESTION_PREFIXES : StartsWith(lower, p)
      THEN (IF wl THEN REPLY_QUESTION_BULLETS
            ELSE IF \/ response_style = "guided"
                    \/ \E p \in GUIDED_PREFIXES : StartsWith(lower, p)
                 THEN REPLY_QUESTION_GUIDED
                 ELSE REPLY_QUESTION_PLAIN)
      ELSE REPLY_DEFAULT

\* chat.py:173-175
capped_user_text(content) ==
  LET stripped == Strip(content)
  IN  IF Len(stripped) > MAX_INPUT_CHARS
      THEN RStrip(Prefix(stripped, MAX_INPUT_CHARS)) \o ELLIPSIS
      ELSE stripped

fallback_for_text_mut_echo_blank(content, response_style) ==
  IF capped_user_text(content) = <<>> THEN capped_user_text(content)
  ELSE fallback_rules(capped_user_text(content), response_style)

\* chat.py:173-207, for the content of the latest user message
fallback_for_text(content, response_style) ==
  IF capped_user_text(content) = <<>> THEN REPLY_NEED_DETAIL
  ELSE fallback_rules(capped_user_text(content), response_style)

deterministic_fallback_reply(messages, response_style) ==
  IF messages = <<>> THEN DEFAULT_GREETING
  ELSE IF UserIdx(messages) = {} THEN DEFAULT_GREETING
  ELSE fallback_for_text(messages[LastUserIdx(messages)].content, response_style)

\* ------------------------------------------------------ JSON payloads
\* A JSON value in a scalar position: kind is absent (the key is missing), str,
\* num, bool, null or list; s is the text of a str and Python's str() of a
\* num or bool.
Absent == [kind |-> "absent", s |-> <<>>]
JStr(t) == [kind |-> "str", s |-> t]
JNum(t) == [kind |-> "num", s |-> t]
JBool(t) == [kind |-> "bool", s |-> t]
JNull == [kind |-> "null", s |-> <<>>]
JList == [kind |-> "list", s |-> <<>>]

\* One entry of a `messages` array: an object with a role (a role name,
\* "invalid" for any other string) and a content, or something that is no object.
Item(r, c) == [isdict |-> TRUE, role |-> r, content |-> c]
NotADict == [isdict |-> FALSE, role |-> "invalid", content |-> Absent]

\* The `messages` value: absent, a list of entries, or another JSON value.
NoMessages == [kind |-> "absent", items |-> <<>>]
MsgList(items) == [kind |-> "list", items |-> items]
MsgOther == [kind |-> "other", items |-> <<>>]

Payload(message, messages, text, query, style, stream) ==
  [message |-> message, messages |-> messages, text |-> text, query |-> query,
   response_style |-> style, stream |-> stream]

SeqsUpTo(S, n) == UNION {[1..k -> S] : k \in 0..n}

\* ---------------------------------------------------- pydantic validation
\* pydantic_core's ValidationError.from_exception_data builds each line error
\* from its "type": a type that is none of pydantic_core's error types raises
\* KeyError, a known type whose required context keys are missing raises
\* TypeError, and otherwise the ValidationError is built (and then raised by
\* the caller's `raise`).
PydanticErrorTypes == {"string_type", "string_too_short", "model_type", "too_short"}

PydanticRequiredCtx(type) ==
  CASE type = "string_too_short" -> {"min_length"}
    [] type = "model_type" -> {"class_name"}
    [] type = "too_short" -> {"field_type", "min_length", "actual_length"}
    [] OTHER -> {}

from_exception_data(type, ctx) ==
  IF type \notin PydanticErrorTypes THEN "KeyError"
  ELSE IF ~(PydanticRequiredCtx(type) \subseteq ctx) THEN "TypeError"
  ELSE "ValidationError"

MessageValid_mut_strip(r, c) ==
  /\ r \in Roles
  /\ Len(Strip(c)) >= 1
  /\ Len(c) <= MAX_CONTENT_LENGTH

\* Message: role is a RoleEnum value, content is constr(min_length=1, max_length=5000)
MessageValid(r, c) ==
  /\ r \in Roles
  /\ Len(c) >= 1
  /\ Len(c) <= MAX_CONTENT_LENGTH

StyleValid_mut_any(style) == TRUE

\* ChatRequest.response_style: Optional[Literal['list', 'plain', 'guided']]
StyleValid(style) == style \in {"absent", "null", "list", "plain", "guided"}
StyleOf(style) == IF style \in {"absent", "null"} THEN "None" ELSE style

\* ChatRequest.stream: Optional[bool]
StreamValid(stream) == stream \in {"absent", "true", "false"}

\* ChatRequest.model_validate(data): TRUE when it raises no ValidationError
ChatRequestValid(data) ==
  /\ data.messages.kind = "list"
  /\ \A i \in 1..Len(data.messages.items) :
       LET m == data.messages.items[i]
       IN  m.isdict /\ m.content.kind = "str" /\ MessageValid(m.role, m.content.s)
  /\ StyleValid(data.response_style)
  /\ StreamValid(data.stream)

\* ChatRequestLegacy.model_validate({"message": msg_val})
ChatRequestLegacyValid(msg_val) ==
  Len(msg_val) >= 1 /\ Len(msg_val) <= MAX_CONTENT_LENGTH

\* ------------------------------------------------ normalize_to_chat_request
\* The outcome: exc is "none" (a ChatRequest is returned) or the exception raised.
Normalized(messages, style) == [exc |-> "none", messages |-> messages, response_style |-> style]
Raised(exc) == [exc |-> exc, messages |-> <<>>, response_style |-> "None"]

\* except ValidationError as ve: raise ValueError(...) from ve
AsValueError(exc) == IF exc = "ValidationError" THEN "ValueError" ELSE exc

IsScalarForShim(v) == v.kind \in {"str", "num", "bool"}

\* schemas.py:78-83, the text/query compatibility shim
shim(data) ==
  IF data.message.kind = "absent" /\ data.messages.kind = "absent"
  THEN IF IsScalarForShim(data.text)
       THEN [data EXCEPT !.message = JStr(data.text.s)]
       ELSE IF IsScalarForShim(data.query)
       THEN [data EXCEPT !.message = JStr(data.query.s)]
       ELSE data
  ELSE data

item_fault_mut_no_blank_check(m) ==
  IF ~m.isdict THEN "model_type"
  ELSE IF m.content.kind # "str" THEN "string_type"
  ELSE "ok"

\* schemas.py:104-142, the check of one entry: the error type it raises, or "ok"
item_fault(m) ==
  IF ~m.isdict THEN "model_type"
  ELSE IF m.content.kind # "str" THEN "string_type"
  ELSE IF Strip(m.content.s) = <<>> THEN "string_too_short"
  ELSE "ok"

item_fault_ctx(type) == IF type = "string_too_short" THEN {"min_length"} ELSE {}

\* schemas.py:86-147
normalize_messages(data) ==
  LET msgs == data.messages
      bad == {i \in 1..Len(msgs.items) : item_fault(msgs.items[i]) # "ok"}
      first == CHOOSE i \in bad : \A j \in bad : i <= j
  IN  IF msgs.kind # "list" \/ msgs.items = <<>>
      THEN Raised(AsValueError(from_exception_data("list_too_short", {"min_length"})))
      ELSE IF bad # {}
      THEN Raised(AsValueError(from_exception_data(
                 item_fault(msgs.items[first]), item_fault_ctx(item_fault(msgs.items[first])))))
      ELSE IF ~ChatRequestValid(data)
      THEN Raised("ValueError")
      ELSE Normalized([i \in 1..Len(msgs.items) |->
                          Msg(msgs.items[i].role, msgs.items[i].content.s)],
                      StyleOf(data.response_style))

normalize_legacy_mut_strip(data) ==
  LET raw == data.message
      msg_val == IF raw.kind \in {"num", "bool"} THEN JStr(raw.s) ELSE raw
  IN  IF msg_val.kind # "str"
      THEN Raised(AsValueError(from_exception_data("string_type", {})))
      ELSE IF Strip(msg_val.s) = <<>>
      THEN Raised(AsValueError(from_exception_data("string_too_short", {"min_length"})))
      ELSE IF ~ChatRequestLegacyValid(msg_val.s)
      THEN Raised("ValueError")
      ELSE Normalized(<<Msg("user", Strip(msg_val.s))>>, "None")

\* schemas.py:150-185
normalize_legacy(data) ==
  LET raw == data.message
      msg_val == IF raw.kind \in {"num", "bool"} THEN JStr(raw.s) ELSE raw
  IN  IF msg_val.kind # "str"
      THEN Raised(AsValueError(from_exception_data("string_type", {})))
      ELSE IF Strip(msg_val.s) = <<>>
      THEN Raised(AsValueError(from_exception_data("string_too_short", {"min_length"})))
      ELSE IF ~ChatRequestLegacyValid(msg_val.s)
      THEN Raised("ValueError")
      ELSE Normalized(<<Msg("user", msg_val.s)>>, "None")

normalize_to_chat_request(body) ==
  LET data == shim(body)
  IN  IF data.messages.kind # "absent" THEN normalize_messages(data)
      ELSE IF data.message.kind # "absent" THEN normalize_legacy(data)
      ELSE Raised("ValueError")

\* ------------------------------------------ the request sent upstream
\* chat.py:16-18
SYSTEM_PROMPT_BASE ==
  <<"Y","o","u"," ","a","r","e"," ","a"," ","h","e","l","p","f","u","l"," ","a","n","d"," ","c","o","n","c","i","s","e"," ","a","s","s","i","s","t","a","n","t","."," ","A","n","s","w","e","r"," ","u","s","e","r"," ","q","u","e","s","t","i","o","n","s"," ","c","l","e","a","r","l","y"," ","a","n","d"," ","d","i","r","e","c","t","l","y",".">>

\* chat.py:21-24
SYSTEM_PROMPT_LIST_HINT ==
  <<"W","h","e","n"," ","t","h","e"," ","u","s","e","r"," ","a","s","k","s"," ","f","o","r"," ","e","x","a","m","p","l","e","s"," ","o","r"," ","i","t","e","m","s",","," ","r","e","s","p","o","n","d"," ","a","s"," ","a"," ","c","o","n","c","i","s","e"," ","b","u","l","l","e","t","e","d"," ","l","i","s","t"," ","o","r"," ","a"," ","s","h","o","r","t",","," ","c","o","m","m","a","-","s","e","p","a","r","a","t","e","d"," ","l","i","s","t","."," ","D","o"," ","n","o","t"," ","a","d","d"," ","m","e","t","a","-","i","n","s","t","r","u","c","t","i","o","n","s"," ","o","r"," ","c","o","m","m","e","n","t","a","r","y","U+2014","j","u","s","t"," ","t","h","e"," ","i","t","e","m","s"," ","o","r"," ","b","r","i","e","f"," ","b","u","l","l","e","t","s",".">>

\* chat.py:66-68
SYSTEM_PROMPT_FORMAT_HINT ==
  <<"F","o","r","m","a","t"," ","h","i","n","t",":"," ","F","o","r"," ","'","e","x","a","m","p","l","e","s","'"," ","r","e","q","u","e","s","t","s",","," ","o","u","t","p","u","t"," ","a"," ","s","h","o","r","t",","," ","c","o","n","c","r","e","t","e"," ","l","i","s","t","U+2014","b","u","l","l","e","t","s"," ","o","r"," ","c","o","m","m","a","-","s","e","p","a","r","a","t","e","d","U+2014","n","o"," ","p","r","e","a","m","b","l","e",".">>

\* chat.py:27-30
SYSTEM_PROMPT_GUIDED ==
  <<"Y","o","u"," ","a","r","e"," ","a"," ","h","e","l","p","f","u","l"," ","a","s","s","i","s","t","a","n","t","."," ","I","f"," ","t","h","e"," ","u","s","e","r"," ","i","s"," ","a","s","k","i","n","g"," ","h","o","w"," ","t","o"," ","d","o"," ","s","o","m","e","t","h","i","n","g",","," ","b","r","e","a","k"," ","i","t"," ","i","n","t","o"," ","s","t","e","p","s"," ","a","n","d"," ","i","n","c","l","u","d","e"," ","a","n"," ","e","x","a","m","p","l","e","."," ","F","o","r"," ","f","a","c","t","u","a","l"," ","q","u","e","s","t","i","o","n","s",","," ","r","e","s","p","o","n","d"," ","c","l","e","a","r","l","y"," ","a","n","d"," ","c","o","n","c","i","s","e","l","y",".">>

\* chat.py:62-71: " ".join(system_prompt_parts)
system_prompt(response_style) ==
  IF response_style = "list"
  THEN SYSTEM_PROMPT_BASE \o <<" ">> \o SYSTEM_PROMPT_LIST_HINT \o <<" ">> \o SYSTEM_PROMPT_FORMAT_HINT
  ELSE IF response_style = "guided"
  THEN SYSTEM_PROMPT_BASE \o <<" ">> \o SYSTEM_PROMPT_GUIDED
  ELSE SYSTEM_PROMPT_BASE

\* chat.py:76-81: the history with each content stripped, the empty ones skipped
wire_history(messages) ==
  LET stripped == [i \in 1..Len(messages) |->
                     Msg(messages[i].role, Strip(messages[i].content))]
      NonEmpty(m) == m.content # <<>>
  IN  SelectSeq(stripped, NonEmpty)

build_messages_for_openai_mut_no_reappend(messages, response_style) ==
  <<Msg("system", system_prompt(response_style))>> \o wire_history(messages)

\* chat.py:55-90
build_messages_for_openai(messages, response_style) ==
  LET wire_messages == <<Msg("system", system_prompt(response_style))>> \o wire_history(messages)
      last_user == extract_last_user_message(messages)
      final == wire_messages[Len(wire_messages)]
  IN  IF /\ last_user.kind = "str"
         /\ last_user.s # <<>>
         /\ (final.role # "user" \/ final.content # last_user.s)
      THEN Append(wire_messages, Msg("user", last_user.s))
      ELSE wire_messages

\* ------------------------------------------------- upstream completion call
\* What the POST to the completion API ends with: an httpx timeout, another
\* exception (transport error, invalid JSON), or a response of which the model
\* keeps the status, whether `choices` is non-empty, and choices[0].message.content.
UpTimeout(phase) == [kind |-> "timeout", phase |-> phase, status |-> 0, choices |-> FALSE, content |-> None]
UpError == [kind |-> "error", phase |-> "connect", status |-> 0, choices |-> FALSE, content |-> None]
UpResponse(status, choices, content) ==
  [kind |-> "response", phase |-> "read", status |-> status, choices |-> choices, content |-> content]

Responses ==
  { UpResponse(500, FALSE, None),
    UpResponse(200, FALSE, None),
    UpResponse(200, TRUE, None),
    UpResponse(200, TRUE, Str(OUT_blank)),
    UpResponse(200, TRUE, Str(OUT_answer)),
    UpResponse(200, TRUE, Str(OUT_TooLong)) }

\* seconds a network phase (connect, read) may take; CLIENT_TIMEOUT is the phase
\* hitting httpx's timeout
PhaseDurations == {1, 7, CLIENT_TIMEOUT}

\* chat.py:132-146
parse_response(r) ==
  IF r.status # 200 THEN None
  ELSE IF ~r.choices THEN None
  ELSE IF r.content.kind # "str" \/ Strip(r.content.s) = <<>> THEN None
  ELSE LET content == Strip(r.content.s)
       IN  IF Len(content) > MAX_RESPONSE_CHARS
           THEN Str(RStrip(Prefix(content, MAX_RESPONSE_CHARS)))
           ELSE Str(content)

call_openai_result_mut_error_text(ev) ==
  IF ev.kind = "response" THEN parse_response(ev) ELSE Str(<<"e","r","r","o","r">>)

\* chat.py:128-148, once the key is configured: every exception gives None
call_openai_result(ev) ==
  IF ev.kind = "response" THEN parse_response(ev) ELSE None

UpstreamLabel(ev) ==
  CASE ev.kind = "timeout" -> "timeout"
    [] ev.kind = "error" -> "transport_error"
    [] ev.status # 200 -> "non_200"
    [] ~ev.choices -> "no_choices"
    [] ev.content.kind # "str" -> "content_not_str"
    [] Strip(ev.content.s) = <<>> -> "content_blank"
    [] OTHER -> "ok"

\* chat.py:236-240
generate_reply_result(ai_reply, messages, response_style) ==
  IF ai_reply.kind = "str" /\ Strip(ai_reply.s) # <<>>
  THEN ai_reply
  ELSE Str(deterministic_fallback_reply(messages, response_style))

UsesFallback(ai_reply) == ~(ai_reply.kind = "str" /\ Strip(ai_reply.s) # <<>>)

\* --------------------------------------------------------------- responses
NoResp == [status |-> 0, code |-> "", keys |-> {}, reply |-> <<>>, duration_ms |-> 0]

\* main.py:111-137: HTTPException(400, detail), sent by FastAPI as {"detail": detail}
InvalidPayloadResponse ==
  [status |-> 400, code |-> "invalid_payload",
   keys |-> {"code", "message", "reason", "accepted_shapes", "examples", "hint",
             "validation", "route", "note", "diagnostic"},
   reply |-> <<>>, duration_ms |-> 0]

ErrorEnvelope_mut_no_duration(status, code, total_ms) ==
  [status |-> status, code |-> code,
   keys |-> {"code", "message", "hint", "route", "diagnostic"},
   reply |-> <<>>, duration_ms |-> 0]

\* the {"error": {...}} body of the 504, 502 and 500 responses
ErrorEnvelope(status, code, total_ms) ==
  [status |-> status, code |-> code,
   keys |-> {"code", "message", "hint", "duration_ms", "route", "diagnostic"},
   reply |-> <<>>, duration_ms |-> total_ms]

\* main.py:182
ChatResponse(reply_text) ==
  [status |-> 200, code |-> "", keys |-> {"reply"}, reply |-> reply_text, duration_ms |-> 0]

\* asyncio.wait_for(aw, timeout): what it raises for the value it is handed.
\* It awaits a coroutine, a task or a future; anything else raises TypeError.
wait_for_raises(aw) ==
  IF aw.kind \in {"coroutine", "task", "future"} THEN "none" ELSE "TypeError"

\* main.py:140-182: the response for what the await raised
await_response(exc, reply_text, total_ms) ==
  CASE exc = "TimeoutError" -> ErrorEnvelope(504, "gateway_timeout", total_ms)
    [] exc = "none" -> ChatResponse(reply_text)
    [] OTHER -> ErrorEnvelope(502, "bad_gateway", total_ms)

\* ------------------------------------------------------------------ inputs
ItemContents == {JStr(IN_WhatIsWater), JStr(IN_hi_padded), JStr(IN_blank), JNum(IN_seven), Absent}
ItemRoles == Roles \cup {"invalid"}
Items == {Item(r, c) : r \in ItemRoles, c \in ItemContents} \cup {NotADict}

MessagesValues ==
  {MsgList(s) : s \in SeqsUpTo(Items, MaxMsgs)}
    \cup {MsgOther, MsgList(<<Item("user", JStr(IN_TooLong))>>)}

PayloadStyles == {"absent", "plain", "list", "guided", "fancy"}
PayloadStreams == {"absent", "true", "maybe"}

ModernPayloads ==
  {Payload(Absent, ms, Absent, Absent, st, sm) :
     ms \in MessagesValues, st \in PayloadStyles, sm \in PayloadStreams}

\* `messages` together with `message`, `text` or `query`
MixedPayloads ==
  {Payload(m, ms, t, Absent, "absent", "absent") :
     m \in {Absent, JStr(IN_hi)}, t \in {Absent, JStr(IN_hi)},
     ms \in {MsgList(<<>>), MsgOther, MsgList(<<NotADict>>),
             MsgList(<<Item("user", JStr(IN_blank))>>),
             MsgList(<<Item("invalid", JStr(IN_WhatIsWater))>>),
             MsgList(<<Item("user", JStr(IN_WhatIsWater))>>)}}

LegacyValues ==
  {JStr(IN_VegExamples), JStr(IN_WhatIsWater), JStr(IN_hi), JStr(IN_hi_padded),
   JStr(IN_blank), JStr(IN_empty), JStr(IN_TooLong), JNum(IN_seven), JBool(IN_True),
   JNull, JList}

LegacyPayloads ==
  {Payload(m, NoMessages, Absent, Absent, st, "absent") :
     m \in LegacyValues, st \in {"absent", "list", "fancy"}}

AliasValues == {Absent, JStr(IN_hi), JNum(IN_seven), JNull}

\* neither `message` nor `messages`: the text/query aliases, or nothing at all
AliasPayloads ==
  {Payload(Absent, NoMessages, t, q, "absent", "absent") : t \in AliasValues, q \in AliasValues}

Payloads == ModernPayloads \cup MixedPayloads \cup LegacyPayloads \cup AliasPayloads

\* histories handed to generate_reply by a direct caller
DirectTexts == {IN_VegPlain, IN_blank, IN_Example}
DirectSingles == {IN_what_is_water, IN_WhatIsWater, IN_VegExamples, IN_HowList, IN_empty,
                  IN_hi, IN_VegQuestion}
DirectMessages ==
  SeqsUpTo({Msg(r, c) : r \in Roles, c \in DirectTexts}, MaxMsgs)
    \cup {<<Msg("user", c)>> : c \in DirectSingles}
DirectStyles == {"None", "plain", "list", "guided"}
DirectCalls ==
  (DirectMessages \X DirectStyles) \cup {<<(<<Msg("user", IN_LongHistory)>>), "None">>}

\* ------------------------------------------------------------------- state
VARIABLES
  pc,          \* idle, received, normalized, upstream, generated, done, returned
  entry,       \* none, http (POST /api/chat), direct (a call of generate_reply)
  body,        \* the request's JSON payload
  req,         \* the outcome of normalize_to_chat_request
  api_key,     \* settings.OPENAI_API_KEY is set
  upstream,    \* how the upstream call of this request ended
  gen,         \* the value generate_reply returned
  now,         \* seconds since total_start
  timer,       \* the route's wait_for has armed its 13 s timer
  resp,        \* the HTTP response
  n_upstream,  \* upstream calls issued for this request
  n_fallback,  \* fallback replies computed for this request
  wire,        \* the `messages` array of the payload posted upstream
  ctor         \* a call of Message(role=..., content=...) and how it ended

vars == <<pc, entry, body, req, api_key, upstream, gen, now, timer, resp, n_upstream, n_fallback,
          wire, ctor>>

NoCtor == [role |-> "", content |-> <<>>, result |-> "unset"]

NoReq == [exc |-> "unset", messages |-> <<>>, response_style |-> "None"]
NoPayload == Payload(Absent, NoMessages, Absent, Absent, "absent", "absent")

Init ==
  /\ pc = "idle"
  /\ entry = "none"
  /\ body = NoPayload
  /\ req = NoReq
  /\ api_key \in BOOLEAN
  /\ upstream = "unset"
  /\ gen = None
  /\ now = 0
  /\ timer = "unset"
  /\ resp = NoResp
  /\ n_upstream = 0
  /\ n_fallback = 0
  /\ wire = <<>>
  /\ ctor = NoCtor

\* a POST /api/chat arrives: main.py:97, total_start = perf_counter()
Receive(b) ==
  /\ pc = "idle"
  /\ pc' = "received"
  /\ entry' = "http"
  /\ body' = b
  /\ UNCHANGED <<req, api_key, upstream, gen, now, timer, resp, n_upstream, n_fallback, wire, ctor>>

\* main.py:101-137 and the handlers of main.py:199-219
ChatNormalize ==
  /\ pc = "received"
  /\ LET n == normalize_to_chat_request(body)
     IN  /\ req' = n
         /\ IF n.exc = "none"
            THEN pc' = "normalized" /\ resp' = resp
            ELSE IF n.exc = "ValueError"
            THEN pc' = "done" /\ resp' = InvalidPayloadResponse
            ELSE pc' = "done" /\ resp' = ErrorEnvelope(500, "internal_error", now * 1000)
  /\ UNCHANGED <<entry, body, api_key, upstream, gen, now, timer, n_upstream, n_fallback, wire, ctor>>

\* another caller of the public generate_reply(messages, response_style)
DirectCall(messages, response_style) ==
  /\ pc = "idle"
  /\ pc' = "normalized"
  /\ entry' = "direct"
  /\ req' = Normalized(messages, response_style)
  /\ UNCHANGED <<body, api_key, upstream, gen, now, timer, resp, n_upstream, n_fallback, wire, ctor>>

\* schemas.py:16-21: some code calls Message(role=r, content=c)
MessageConstruct(r, c) ==
  /\ pc = "idle"
  /\ pc' = "constructed"
  /\ entry' = "construct"
  /\ ctor' = [role |-> r, content |-> c,
              result |-> IF MessageValid(r, c) THEN "Message" ELSE "ValidationError"]
  /\ UNCHANGED <<body, req, api_key, upstream, gen, now, timer, resp, n_upstream, n_fallback, wire>>

AfterGenerate == IF entry = "http" THEN "generated" ELSE "returned"

GenerateReplyBegin_mut_under_timer ==
  /\ pc = "normalized"
  /\ timer' = (IF entry = "http" THEN "armed" ELSE timer)
  /\ IF ~api_key
     THEN /\ pc' = AfterGenerate
          /\ upstream' = "not_configured"
          /\ gen' = generate_reply_result(None, req.messages, req.response_style)
          /\ n_fallback' = n_fallback + 1
          /\ n_upstream' = n_upstream
          /\ wire' = wire
     ELSE /\ pc' = "upstream"
          /\ upstream' = "pending"
          /\ n_upstream' = n_upstream + 1
          /\ wire' = build_messages_for_openai(req.messages, req.response_style)
          /\ UNCHANGED <<gen, n_fallback>>
  /\ UNCHANGED <<entry, body, req, api_key, now, resp, ctor>>

\* main.py:142 evaluates generate_reply(...): chat.py:236, then chat.py:115-131.
\* Without a key _call_openai returns None at once and generate_reply returns
\* the fallback; with a key the POST is issued and the thread blocks in it.
GenerateReplyBegin ==
  /\ pc = "normalized"
  /\ IF ~api_key
     THEN /\ pc' = AfterGenerate
          /\ upstream' = "not_configured"
          /\ gen' = generate_reply_result(None, req.messages, req.response_style)
          /\ n_fallback' = n_fallback + 1
          /\ n_upstream' = n_upstream
          /\ wire' = wire
     ELSE /\ pc' = "upstream"
          /\ upstream' = "pending"
          /\ n_upstream' = n_upstream + 1
          /\ wire' = build_messages_for_openai(req.messages, req.response_style)
          /\ UNCHANGED <<gen, n_fallback>>
  /\ UNCHANGED <<entry, body, req, api_key, now, timer, resp, ctor>>

UpstreamEnds_mut_retry(ev, took) ==
  /\ pc = "upstream"
  /\ now' = now + took
  /\ LET ai_reply == call_openai_result(ev)
     IN  IF UsesFallback(ai_reply) /\ n_upstream < 2
         THEN /\ pc' = "normalized"
              /\ UNCHANGED <<upstream, gen, n_fallback>>
         ELSE /\ pc' = AfterGenerate
              /\ upstream' = UpstreamLabel(ev)
              /\ gen' = generate_reply_result(ai_reply, req.messages, req.response_style)
              /\ n_fallback' = IF UsesFallback(ai_reply) THEN n_fallback + 1 ELSE n_fallback
  /\ UNCHANGED <<entry, body, req, api_key, timer, resp, n_upstream, wire, ctor>>

\* the POST ends with ev after `took` seconds; _call_openai and generate_reply return
UpstreamEnds(ev, took) ==
  /\ pc = "upstream"
  /\ pc' = AfterGenerate
  /\ upstream' = UpstreamLabel(ev)
  /\ now' = now + took
  /\ LET ai_reply == call_openai_result(ev)
     IN  /\ gen' = generate_reply_result(ai_reply, req.messages, req.response_style)
         /\ n_fallback' = IF UsesFallback(ai_reply) THEN n_fallback + 1 ELSE n_fallback
  /\ UNCHANGED <<entry, body, req, api_key, timer, resp, n_upstream, wire, ctor>>

\* chat.py:130-131 under httpx.Client(timeout=10.0): the connect phase, then the
\* read phase, each cut off at CLIENT_TIMEOUT
UpstreamCompletes ==
  /\ pc = "upstream"
  /\ \E d1 \in PhaseDurations :
      IF d1 >= CLIENT_TIMEOUT
      THEN UpstreamEnds(UpTimeout("connect"), CLIENT_TIMEOUT)
      ELSE \/ UpstreamEnds(UpError, d1)
           \/ \E d2 \in PhaseDurations :
                IF d2 >= CLIENT_TIMEOUT
                THEN UpstreamEnds(UpTimeout("read"), d1 + CLIENT_TIMEOUT)
                ELSE \E r \in Responses : UpstreamEnds(r, d1 + d2)

\* main.py:141-182: asyncio.wait_for is handed the value generate_reply returned
ChatAwait ==
  /\ pc = "generated"
  /\ pc' = "done"
  /\ timer' = "armed"
  /\ resp' = await_response(wait_for_raises(gen), gen.s, now * 1000)
  /\ UNCHANGED <<entry, body, req, api_key, upstream, gen, now, n_upstream, n_fallback, wire, ctor>>

\* the response is sent (or the direct call has returned); the next request
Reset ==
  /\ pc \in {"done", "returned", "constructed"}
  /\ pc' = "idle"
  /\ entry' = "none"
  /\ body' = NoPayload
  /\ req' = NoReq
  /\ upstream' = "unset"
  /\ gen' = None
  /\ now' = 0
  /\ timer' = "unset"
  /\ resp' = NoResp
  /\ n_upstream' = 0
  /\ n_fallback' = 0
  /\ wire' = <<>>
  /\ ctor' = NoCtor
  /\ UNCHANGED api_key

\* any client sends any payload
ReceiveAny == pc = "idle" /\ \E b \in Payloads : Receive(b)

DirectCallAny ==
  pc = "idle" /\ \E c \in DirectCalls : DirectCall(c[1], c[2])

CtorContents == {IN_hi, IN_hi_padded, IN_blank, IN_empty, IN_WhatIsWater, IN_TooLong,
                 Repeat("a", MAX_CONTENT_LENGTH), <<" ">> \o Repeat("a", MAX_CONTENT_LENGTH)}

MessageConstructAny ==
  pc = "idle" /\ \E r \in ItemRoles, c \in CtorContents : MessageConstruct(r, c)

Next ==
  \/ ReceiveAny
  \/ MessageConstructAny
  \/ ChatNormalize
  \/ DirectCallAny
  \/ GenerateReplyBegin
  \/ UpstreamCompletes
  \/ ChatAwait
  \/ Reset

Spec == Init /\ [][Next]_vars

\* ------------------------------------------------------------ properties
Responded == pc = "done"
Accepted == entry = "http" /\ req.exc = "none"
Rejected == entry = "http" /\ req.exc \notin {"none", "unset"}
Generated == pc \in {"generated", "returned", "done"} /\ req.exc = "none"
FallbackText == deterministic_fallback_reply(req.messages, req.response_style)

\* C1: every payload the normalizer accepts ends with HTTP 200 and a body
\* {reply: s} with s a non-empty string, never with 502, 504 or 500.
C1_AcceptedEndsWith200 ==
  (Responded /\ Accepted) => (resp.status = 200 /\ resp.reply # <<>>)

\* C2: every payload the normalizer rejects ends with HTTP 400 whose detail has
\* code invalid_payload, accepted_shapes and validation, never with 200 or 5xx,
\* and generate_reply is not invoked.
C2_RejectedEndsWith400 ==
  (Responded /\ Rejected) =>
    /\ resp.status = 400
    /\ resp.code = "invalid_payload"
    /\ {"accepted_shapes", "validation"} \subseteq resp.keys
    /\ gen = None /\ n_upstream = 0 /\ n_fallback = 0

\* the legacy payload {message: s}, s a str that is non-blank after trimming and
\* of at most 5000 characters
LegacyString ==
  /\ entry = "http"
  /\ pc \notin {"idle", "received"}
  /\ body.messages.kind = "absent"
  /\ body.message.kind = "str"
  /\ Strip(body.message.s) # <<>>
  /\ Len(body.message.s) <= MAX_CONTENT_LENGTH

\* C3 (as amended): for a legacy payload {message: s}, s non-blank after trimming
\* and of at most 5000 characters, normalize_to_chat_request returns a
\* ChatRequest with exactly one message, of role user, whose content is s as
\* given: leading and trailing whitespace is kept.
C3_LegacyContentVerbatim ==
  LegacyString =>
    (req.exc = "none" /\ req.messages = <<Msg("user", body.message.s)>>)

\* C3 (as claimed): the single user message's content is s with leading and
\* trailing whitespace removed.
C3_LegacyContentTrimmed ==
  LegacyString =>
    (req.exc = "none" /\ req.messages = <<Msg("user", Strip(body.message.s))>>)

C3_Witness ==
  /\ LegacyString
  /\ pc = "normalized"
  /\ body.message.s # Strip(body.message.s)
  /\ Len(req.messages) = 1

\* C4: when the upstream call exceeds the inner client timeout, the request
\* still ends with HTTP 200 carrying the fallback text, not with 504.
C4_InnerTimeoutEndsWith200 ==
  (Responded /\ Accepted /\ upstream = "timeout") =>
    (resp.status = 200 /\ resp.reply = FallbackText)

\* C5: when handling a valid request is still in progress as the 13 s route
\* budget elapses, the request ends with the 504 gateway_timeout envelope.
C5_BudgetExceededEndsWith504 ==
  (Responded /\ Accepted /\ now > ROUTE_TIMEOUT) =>
    (resp.status = 504 /\ resp.code = "gateway_timeout")

\* the most recent user message is, trimmed and lower-cased, the literal
\* "what is water" question
AsksWhatIsWater ==
  /\ UserIdx(req.messages) # {}
  /\ Lower(Strip(req.messages[LastUserIdx(req.messages)].content))
        \in {TXT_what_is_water, TXT_what_is_water_q}

\* C6: with the upstream unconfigured, the reply to the "what is water"
\* question is a one-liner about water containing "H2O" (with the subscript
\* two), for every response_style.
C6_WaterReplyContainsH2O ==
  (Generated /\ upstream = "not_configured" /\ AsksWhatIsWater) =>
    Contains(gen.s, TXT_H2O)

VegExamplesPayload ==
  Payload(JStr(IN_VegExamples), NoMessages, Absent, Absent, "absent", "absent")

VegExamplesUnconfigured ==
  /\ entry = "http"
  /\ pc \in {"generated", "done"}
  /\ body = VegExamplesPayload
  /\ upstream = "not_configured"

\* C7 (as amended): for {"message": "Give me examples of vegetables"} with the
\* upstream unconfigured, the vegetable rule fires in list style, because the
\* text contains "examples": the text generate_reply returns is the bulleted
\* list, which contains "Carrots".
C7_VegExamplesBulleted ==
  VegExamplesUnconfigured =>
    (gen = Str(REPLY_VEG_BULLETS) /\ Contains(gen.s, TXT_Carrots))

\* C7 (as claimed): the reply is the comma-joined sentence containing
\* "Carrots", not the bulleted list.
C7_VegExamplesSentence ==
  VegExamplesUnconfigured =>
    (gen = Str(REPLY_VEG_SENTENCE) /\ Contains(gen.s, TXT_Carrots))

C7_Witness == VegExamplesUnconfigured /\ pc = "generated" /\ n_fallback = 1

\* C8: the fallback returns a non-empty string for every message list and
\* response_style, and so generate_reply always returns a non-empty string.
C8_ReplyNeverEmpty ==
  Generated =>
    /\ gen.kind = "str"
    /\ gen.s # <<>>
    /\ (n_fallback = 1 => gen.s = FallbackText)
    /\ FallbackText # <<>>

\* the fallback has answered a history whose latest user content is blank
C8_Witness ==
  /\ pc = "returned"
  /\ n_fallback = 1
  /\ UserIdx(req.messages) # {}
  /\ Strip(req.messages[LastUserIdx(req.messages)].content) = <<>>
  /\ gen.s = REPLY_NEED_DETAIL

\* C9 (as amended): every 500, 502 and 504 response carries a hint and the
\* elapsed duration_ms; the 400 response carries a hint and no duration_ms.
C9_ErrorBodies ==
  Responded =>
    /\ resp.status \in {500, 502, 504} =>
         ({"hint", "duration_ms"} \subseteq resp.keys /\ resp.duration_ms = now * 1000)
    /\ resp.status = 400 => ("hint" \in resp.keys /\ "duration_ms" \notin resp.keys)

\* C9 (as claimed): every error response, the 400 included, carries a hint and
\* duration_ms.
C9_EveryErrorHasDuration ==
  (Responded /\ resp.status # 200) => {"hint", "duration_ms"} \subseteq resp.keys

C9_Witness == Responded /\ resp.status = 400 /\ Rejected

\* C10: a 502 is produced only for an unexpected exception raised while
\* obtaining the completion; an upstream that is not configured, timed out,
\* answered non-2xx or answered malformed data falls back with 200.
C10_BadGatewayOnlyOnUpstreamException ==
  (Responded /\ Accepted /\
     upstream \in {"not_configured", "timeout", "non_200", "no_choices",
                   "content_not_str", "content_blank"}) =>
    (resp.status # 502 /\ resp.status = 200 /\ resp.reply = FallbackText)

\* ---------------------------------------------------------------- C11
Constructed == pc = "constructed"

NoUsableText ==
  {"not_configured", "timeout", "transport_error", "non_200", "no_choices",
   "content_not_str", "content_blank"}

\* C12: request handling is linear with no retries: per request the upstream
\* call is issued at most once, the fallback is computed at most once and only
\* once the single attempt has ended without usable text, and a request that
\* has ended has exactly one response, whose status is one of 200, 400, 502,
\* 504 and 500.
C12_LinearNoRetries ==
  /\ n_upstream <= 1
  /\ n_fallback <= 1
  /\ (n_fallback = 1 => upstream \in NoUsableText)
  /\ (upstream \in {"unset", "pending", "ok"} => n_fallback = 0)
  /\ (resp # NoResp <=> Responded)
  /\ (Responded => resp.status \in {200, 400, 502, 504, 500})

C12_Witness ==
  /\ Responded
  /\ n_upstream = 1
  /\ n_fallback = 1
  /\ upstream = "timeout"

\* ---------------------------------------------------------------- C13
\* C13: the upstream client never raises past its boundary. Without a
\* configured key no upstream call is issued at all; without a key, and after
\* a non-200 status, a transport error, a timeout, a missing or empty choices
\* list, or a completion that is no string or is blank, what generate_reply
\* returns is a string, exactly the fallback text for the same messages and
\* response_style, computed once.
C13_UnavailableGivesFallback ==
  /\ (upstream = "not_configured" => n_upstream = 0)
  /\ (Generated => gen.kind = "str")
  /\ (Generated /\ upstream \in NoUsableText =>
        gen = Str(FallbackText) /\ n_fallback = 1)

C13_Witness ==
  /\ Generated
  /\ upstream = "content_not_str"
  /\ n_upstream = 1
  /\ gen = Str(FallbackText)

\* ---------------------------------------------------------------- C14
MessagesShape == entry = "http" /\ body.messages.kind # "absent"
NormalizeReturned == pc \in {"normalized", "upstream", "generated", "done"}

\* the `messages` value passes every check of schemas.py:86-141 and Message
WellFormedMessages ==
  /\ body.messages.kind = "list"
  /\ body.messages.items # <<>>
  /\ \A i \in 1..Len(body.messages.items) :
       /\ item_fault(body.messages.items[i]) = "ok"
       /\ MessageValid(body.messages.items[i].role, body.messages.items[i].content.s)

SuppliedMessages ==
  [i \in 1..Len(body.messages.items) |->
     Msg(body.messages.items[i].role, body.messages.items[i].content.s)]

\* a response_style key holding something else than plain, list or guided
UnknownStyle == body.response_style \notin {"absent", "null", "plain", "list", "guided"}

\* C14 (as amended): in the `messages` shape a response_style that is not one
\* of plain/list/guided (nor absent) makes normalization fail: with messages
\* that are themselves valid the failure is a ValueError, answered with 400
\* invalid_payload, and no ChatRequest is returned. A ChatRequest that is
\* returned carries the recognized style as given, or None when the key is
\* absent.
C14_UnknownStyleRejected ==
  MessagesShape /\ NormalizeReturned =>
    /\ (UnknownStyle =>
          /\ req.exc # "none"
          /\ (WellFormedMessages =>
                /\ req.exc = "ValueError"
                /\ (Responded => resp = InvalidPayloadResponse)))
    /\ (req.exc = "none" => req.response_style = StyleOf(body.response_style))

\* C14 as stated: with valid messages, an unrecognized response_style does
\* not make normalization fail; the ChatRequest has response_style None and
\* the supplied messages.
C14_UnknownStyleBecomesNone ==
  /\ MessagesShape /\ NormalizeReturned
  /\ WellFormedMessages /\ StreamValid(body.stream)
  /\ UnknownStyle
  => req = Normalized(SuppliedMessages, "None")

C14_Witness ==
  /\ MessagesShape /\ Responded
  /\ WellFormedMessages /\ StreamValid(body.stream)
  /\ body.response_style = "fancy"
  /\ resp = InvalidPayloadResponse

\* ---------------------------------------------------------------- C15
WireBuilt == wire # <<>>
KeptIdx == {i \in 1..Len(req.messages) : Strip(req.messages[i].content) # <<>>}
Rank(i) == Cardinality({j \in KeptIdx : j <= i})
RecentUserText == Strip(req.messages[LastUserIdx(req.messages)].content)
RecentUserNonBlank == UserIdx(req.messages) # {} /\ RecentUserText # <<>>
RecentUserIsFinalKept ==
  \A j \in KeptIdx : j <= LastUserIdx(req.messages)
Reappended == RecentUserNonBlank /\ ~RecentUserIsFinalKept
FinalWire == wire[Len(wire)]

\* the first entry is the synthesized system message, then come the caller's
\* messages of non-blank content, in their order, each with its content
\* trimmed, then one more entry exactly when the most recent user message is
\* non-blank and not the final kept one
C15_WireStructure ==
  /\ wire[1] = Msg("system", system_prompt(req.response_style))
  /\ \A i \in KeptIdx :
       wire[1 + Rank(i)] = Msg(req.messages[i].role, Strip(req.messages[i].content))
  /\ Len(wire) = 1 + Cardinality(KeptIdx) + (IF Reappended THEN 1 ELSE 0)
  /\ (Reappended => FinalWire = Msg("user", RecentUserText))

C16_ReturnedRequestWellFormed ==
  Accepted =>
    /\ Len(req.messages) >= 1
    /\ \A i \in 1..Len(req.messages) :
         /\ req.messages[i].role \in Roles
         /\ Strip(req.messages[i].content) # <<>>
         /\ Len(req.messages[i].content) <= MAX_CONTENT_LENGTH
    /\ (MessagesShape =>
          /\ Len(req.messages) = Len(body.messages.items)
          /\ \A i \in 1..Len(req.messages) :
               /\ req.messages[i].role = body.messages.items[i].role
               /\ req.messages[i].content = body.messages.items[i].content.s)

C16_Witness ==
  /\ Accepted /\ MessagesShape
  /\ Len(req.messages) = 2
  /\ req.messages[1] = Msg("assistant", IN_hi_padded)
  /\ req.messages[2] = Msg("user", IN_WhatIsWater)

\* ---------------------------------------------------------------- C17
\* what the fallback reads: the most recent user message, trimmed, capped, lowered
FallbackLower ==
  Lower(capped_user_text(req.messages[LastUserIdx(req.messages)].content))
FallbackRan == Generated /\ n_fallback = 1 /\ UserIdx(req.messages) # {}
MentionsVegetable == Contains(FallbackLower, KW_vegetable)
AsksForList ==
  \/ req.response_style = "list"
  \/ Contains(FallbackLower, KW_example)
  \/ Contains(FallbackLower, KW_list)

\* C17: in the fallback, when the most recent user message mentions
\* "vegetable", the reply is the fixed vegetable set, as a bulleted list
\* exactly when response_style is list or the text contains "example" or
\* "list", and as the comma-joined sentence otherwise, whatever else the text
\* holds: the rule wins over the generic example rule and over the question
\* and default rules.
C17_VegetableRuleFirst ==
  FallbackRan /\ MentionsVegetable =>
    gen.s = (IF AsksForList THEN REPLY_VEG_BULLETS ELSE REPLY_VEG_SENTENCE)

C17_Witness ==
  /\ FallbackRan
  /\ req.messages = <<Msg("user", IN_VegQuestion)>>
  /\ req.response_style = "guided"
  /\ gen.s = REPLY_VEG_SENTENCE

\* ---------------------------------------------------------------- C18
\* C18: dispatch is by key presence, `messages` first. With a `messages` key
\* the outcome is decided by `messages` alone: a ChatRequest of the supplied
\* messages, or InvalidPayload (a ValueError, answered with 400) for any
\* failure in it, also when a valid `message`, `text` or `query` is present;
\* the legacy path is taken only without a `messages` key.
C18_MessagesKeyDecides ==
  MessagesShape /\ NormalizeReturned =>
    /\ req.exc \in {"none", "ValueError"}
    /\ (req.exc = "none" => WellFormedMessages /\ req.messages = SuppliedMessages)
    /\ (~WellFormedMessages => req.exc = "ValueError")
    /\ (Responded /\ req.exc # "none" => resp = InvalidPayloadResponse)

====
